---- MODULE Spec2Model ----
(***************************************************************************)
(* Model of BackyardFlyer (src/backyard_flyer.py): the flight state        *)
(* machine driven by the LOCAL_POSITION, LOCAL_VELOCITY and STATE          *)
(* callbacks, and the square planner calculate_box.                        *)
(*                                                                         *)
(* Numbers.  The program computes in floating point; the model is in fixed *)
(* point, one unit = 0.001 of the program's unit (3.0 is 3000, 0.25 is     *)
(* 250, 0.01 is 10).  The box specification SpecBox uses plain integers.   *)
(*                                                                         *)
(* Arrays.  numpy arrays are objects: `arrays` is the heap, a sequence of  *)
(* 3-vectors, and target_position and the entries of all_waypoints are     *)
(* references (indices) into it, so that np.copy, the in-place write of    *)
(* takeoff_transition and the uncopied start_point returned by             *)
(* calculate_box are modelled as the code performs them.                   *)
(***************************************************************************)
EXTENDS Integers, Sequences, FiniteSets, TLC

VARIABLES
    flight_state,     \* self.flight_state, a member of States
    arrays,           \* the heap of numpy arrays held by the controller
    target_position,  \* self.target_position, a reference into arrays
    all_waypoints,    \* self.all_waypoints, a list of references
    in_mission,       \* self.in_mission
    square_size,      \* self.square_size
    local_position,   \* Drone.local_position  (north, east, down)
    local_velocity,   \* Drone.local_velocity  (north, east, down)
    global_position,  \* Drone.global_position (lon, lat, alt)
    global_home,      \* Drone.global_home     (lon, lat, alt)
    commands,         \* the commands issued on the connection, in order
    plans,            \* the calls of calculate_box made so far, with results
    visited,          \* flight_state after each callback that acted
    last,             \* the callback run last, and whether it acted
    start_pc,         \* where start() is
    log_open          \* the telemetry log opened by start_log is open

vars == <<flight_state, arrays, target_position, all_waypoints, in_mission,
          square_size, local_position, local_velocity, global_position,
          global_home, commands, plans, visited, last, start_pc, log_open>>

\* class States
States == {"MANUAL", "ARMING", "TAKEOFF", "WAYPOINT", "LANDING", "DISARMING"}

----------------------------------------------------------------------------
\* Program constants, in units of 0.001.

\* self.square_size = 10.0
SquareSize == 10000
\* target_altitude = 3.0
TargetAltitude == 3000
\* np.allclose(..., atol=0.25)
PositionAtol == 250
\* np.linalg.norm(self.local_velocity[0:2]) < 1.0
LandingSpeed == 1000
\* self.global_position[2] - self.global_home[2] < 0.1
HomeAltTol == 100
\* abs(self.local_position[2]) < 0.01
GroundTol == 10
\* cmd_position(..., 0): the heading
Heading == 0

----------------------------------------------------------------------------
\* Bounds of the box specification: start points in (-MaxCoord..MaxCoord)^3,
\* sizes in 1..MaxSize.
MaxCoord == 1
MaxSize == 3

----------------------------------------------------------------------------
\* The telemetry readings delivered by the dispatcher.

Abs(x) == IF x < 0 THEN -x ELSE x

\* Readings of local_position (north, east, down): on and around the takeoff
\* target (0, 0, altitude 3.0, i.e. down -3.0), on the three other corners
\* of the square, and on the ground.
LocalPositions ==
    { <<0, 0, -3000>>,          \* on the takeoff target
      <<200, 200, -3200>>,      \* 0.2 off on every axis
      <<250, -250, -2750>>,     \* 0.25 off on every axis
      <<300, 0, -3000>>,        \* 0.3 off on one axis
      <<0, 0, -3251>>,          \* just outside in altitude
      <<0, 0, 3000>>,           \* the altitude with the wrong sign
      <<10000, 0, -3000>>,
      <<10000, 10000, -3000>>,
      <<0, 10000, -3000>>,
      <<0, 0, 0>>,              \* on the ground
      <<0, 0, 9>>,
      <<0, 0, -10>> }

\* Readings of local_velocity (north, east, down).
LocalVelocities ==
    { <<0, 0, 0>>, <<600, 600, 0>>, <<600, 800, 0>>, <<-1000, 0, 0>>,
      <<0, 0, 500>>, <<0, 0, 9>> }

\* Readings of global_position and global_home (lon, lat, alt).
GlobalPositions ==
    { <<0, 0, 0>>, <<-122, 37, 99>>, <<-122, 37, 100>> }

GlobalHomes ==
    { <<0, 0, 0>>, <<-122, 37, 50>> }

----------------------------------------------------------------------------
\* The controller object: the fields a callback reads and writes.

Self ==
    [ flight_state |-> flight_state, arrays |-> arrays,
      target_position |-> target_position, all_waypoints |-> all_waypoints,
      in_mission |-> in_mission, square_size |-> square_size,
      local_position |-> local_position, local_velocity |-> local_velocity,
      global_position |-> global_position, global_home |-> global_home,
      commands |-> commands, plans |-> plans ]

\* A command sent on the connection.
Cmd(name, args) == [name |-> name, args |-> args]

Issue(self, name, args) ==
    [self EXCEPT !.commands = Append(@, Cmd(name, args))]

\* np.copy(a) on the heap: the heap with a new array holding a's value; the
\* new array's reference is the length of the result.
np_copy(heap, ref) == Append(heap, heap[ref])

\* Mutant of np_allclose: the Euclidean distance against atol.
np_allclose_euclid(a, b, atol) ==
    (a[1] - b[1]) * (a[1] - b[1]) + (a[2] - b[2]) * (a[2] - b[2])
      + (a[3] - b[3]) * (a[3] - b[3]) <= atol * atol

\* np.allclose(a, b, rtol=0.0, atol=atol) on two 3-vectors:
\* |a - b| <= atol + rtol * |b| on every component.
np_allclose(a, b, atol) ==
    \A i \in 1..3 : Abs(a[i] - b[i]) <= atol

\* np.linalg.norm(v[0:2]) < bound, compared on the squares.
norm2_below(v, bound) ==
    v[1] * v[1] + v[2] * v[2] < bound * bound

----------------------------------------------------------------------------
\* Mutant of calculate_box: the square is left open, start_point is not
\* returned.
calculate_box_open(heap, start_point, size) ==
    LET h1 == np_copy(heap, start_point)
        waypoint_1 == Len(h1)
        h2 == [h1 EXCEPT ![waypoint_1][1] = h1[start_point][1] + size]
        h3 == np_copy(h2, waypoint_1)
        waypoint_2 == Len(h3)
        h4 == [h3 EXCEPT ![waypoint_2][2] = h3[waypoint_1][2] + size]
        h5 == np_copy(h4, waypoint_2)
        waypoint_3 == Len(h5)
        h6 == [h5 EXCEPT ![waypoint_3][1] = h5[waypoint_2][1] - size]
    IN  [ arrays |-> h6,
          result |-> <<waypoint_1, waypoint_2, waypoint_3>> ]

\* Mutant of calculate_box: waypoint_1 = start_point without np.copy, so the
\* first write goes to the caller's array.
calculate_box_alias(heap, start_point, size) ==
    LET waypoint_1 == start_point
        h2 == [heap EXCEPT ![waypoint_1][1] = heap[start_point][1] + size]
        h3 == np_copy(h2, waypoint_1)
        waypoint_2 == Len(h3)
        h4 == [h3 EXCEPT ![waypoint_2][2] = h3[waypoint_1][2] + size]
        h5 == np_copy(h4, waypoint_2)
        waypoint_3 == Len(h5)
        h6 == [h5 EXCEPT ![waypoint_3][1] = h5[waypoint_2][1] - size]
    IN  [ arrays |-> h6,
          result |-> <<waypoint_1, waypoint_2, waypoint_3, start_point>> ]

----------------------------------------------------------------------------
\* calculate_box(start_point, size): three fresh arrays and start_point
\* itself, which is returned uncopied.
calculate_box(heap, start_point, size) ==
    LET h1 == np_copy(heap, start_point)
        waypoint_1 == Len(h1)
        h2 == [h1 EXCEPT ![waypoint_1][1] = h1[start_point][1] + size]
        h3 == np_copy(h2, waypoint_1)
        waypoint_2 == Len(h3)
        h4 == [h3 EXCEPT ![waypoint_2][2] = h3[waypoint_1][2] + size]
        h5 == np_copy(h4, waypoint_2)
        waypoint_3 == Len(h5)
        h6 == [h5 EXCEPT ![waypoint_3][1] = h5[waypoint_2][1] - size]
    IN  [ arrays |-> h6,
          result |-> <<waypoint_1, waypoint_2, waypoint_3, start_point>> ]

\* The record kept in plans for one call of calculate_box: the value of
\* start_point and size at the call, and the values of the returned points.
PlanRecord(heap, start_point, size, box) ==
    [ start |-> heap[start_point], size |-> size,
      points |-> [i \in 1..Len(box.result) |-> box.arrays[box.result[i]]] ]

----------------------------------------------------------------------------
\* The transitions.

\* Mutant of arming_transition: arm() is called before take_control().
arming_transition_arm_first(self) ==
    LET s1 == Issue(self, "arm", <<>>)
        s2 == Issue(s1, "take_control", <<>>)
        s3 == Issue(s2, "set_home_position",
                    <<self.global_position[1], self.global_position[2],
                      self.global_position[3]>>)
    IN  [s3 EXCEPT !.flight_state = "ARMING"]

arming_transition(self) ==
    LET s1 == Issue(self, "take_control", <<>>)
        s2 == Issue(s1, "arm", <<>>)
        s3 == Issue(s2, "set_home_position",
                    <<self.global_position[1], self.global_position[2],
                      self.global_position[3]>>)
    IN  [s3 EXCEPT !.flight_state = "ARMING"]

takeoff_transition(self) ==
    LET target_altitude == TargetAltitude
        s1 == [self EXCEPT !.arrays[self.target_position][3] = target_altitude]
        s2 == Issue(s1, "takeoff", <<target_altitude>>)
    IN  [s2 EXCEPT !.flight_state = "TAKEOFF"]

landing_transition(self) ==
    [Issue(self, "land", <<>>) EXCEPT !.flight_state = "LANDING"]

\* Mutant of disarming_transition: the mission is ended here already.
disarming_transition_ends_mission(self) ==
    [Issue(self, "disarm", <<>>) EXCEPT !.flight_state = "DISARMING",
                                        !.in_mission = FALSE]

disarming_transition(self) ==
    [Issue(self, "disarm", <<>>) EXCEPT !.flight_state = "DISARMING"]

\* Mutant of manual_transition: in_mission is left set.
manual_transition_keeps_mission(self) ==
    LET s1 == Issue(self, "release_control", <<>>)
        s2 == Issue(s1, "stop", <<>>)
    IN  [s2 EXCEPT !.flight_state = "MANUAL"]

\* Mutant of manual_transition: the connection is stopped before control is
\* released.
manual_transition_stop_first(self) ==
    LET s1 == Issue(self, "stop", <<>>)
        s2 == Issue(s1, "release_control", <<>>)
    IN  [s2 EXCEPT !.in_mission = FALSE, !.flight_state = "MANUAL"]

manual_transition(self) ==
    LET s1 == Issue(self, "release_control", <<>>)
        s2 == Issue(s1, "stop", <<>>)
    IN  [s2 EXCEPT !.in_mission = FALSE, !.flight_state = "MANUAL"]

\* Mutant of waypoint_transition: pop() takes the last waypoint.
waypoint_transition_lifo(self) ==
    IF self.all_waypoints # <<>>
    THEN LET n == Len(self.all_waypoints)
             s1 == [self EXCEPT !.target_position = self.all_waypoints[n],
                                !.all_waypoints = SubSeq(self.all_waypoints,
                                                         1, n - 1)]
             t == s1.arrays[s1.target_position]
         IN  Issue(s1, "cmd_position", <<t[1], t[2], t[3], Heading>>)
    ELSE IF norm2_below(self.local_velocity, LandingSpeed)
         THEN landing_transition(self)
         ELSE self

\* Mutant of waypoint_transition: landing without the speed check.
waypoint_transition_any_speed(self) ==
    IF self.all_waypoints # <<>>
    THEN LET s1 == [self EXCEPT !.target_position = Head(self.all_waypoints),
                                !.all_waypoints = Tail(self.all_waypoints)]
             t == s1.arrays[s1.target_position]
         IN  Issue(s1, "cmd_position", <<t[1], t[2], t[3], Heading>>)
    ELSE landing_transition(self)

\* Mutant of waypoint_transition: the popped waypoint is written into the
\* target array in place (self.target_position[:] = ...).
waypoint_transition_inplace(self) ==
    IF self.all_waypoints # <<>>
    THEN LET s1 == [self EXCEPT
                      !.arrays[self.target_position] =
                          self.arrays[Head(self.all_waypoints)],
                      !.all_waypoints = Tail(self.all_waypoints)]
             t == s1.arrays[s1.target_position]
         IN  Issue(s1, "cmd_position", <<t[1], t[2], t[3], Heading>>)
    ELSE IF norm2_below(self.local_velocity, LandingSpeed)
         THEN landing_transition(self)
         ELSE self

\* Mutant of waypoint_transition: the test of the queue is inverted; the
\* pop(0) of an empty list raises IndexError and leaves the fields alone.
waypoint_transition_inverted(self) ==
    IF self.all_waypoints = <<>>
    THEN self
    ELSE IF norm2_below(self.local_velocity, LandingSpeed)
         THEN landing_transition(self)
         ELSE self

waypoint_transition(self) ==
    IF self.all_waypoints # <<>>
    THEN LET s1 == [self EXCEPT !.target_position = Head(self.all_waypoints),
                                !.all_waypoints = Tail(self.all_waypoints)]
             t == s1.arrays[s1.target_position]
         IN  Issue(s1, "cmd_position", <<t[1], t[2], t[3], Heading>>)
    ELSE IF norm2_below(self.local_velocity, LandingSpeed)
         THEN landing_transition(self)
         ELSE self

----------------------------------------------------------------------------
\* The callbacks.

\* The position-reached check of local_position_callback: the target against
\* a copy of local_position with its third component negated.
position_reached(self) ==
    LET current_position == [self.local_position EXCEPT ![3] = @ * (-1)]
    IN  np_allclose(self.arrays[self.target_position], current_position,
                    PositionAtol)

\* Mutant of local_position_callback: leaving TAKEOFF only plans, the first
\* pop waits for the next position event.
local_position_callback_plan_only(self) ==
    IF position_reached(self)
    THEN IF self.flight_state = "TAKEOFF"
         THEN LET box == calculate_box(self.arrays, self.target_position,
                                       self.square_size)
              IN  [self EXCEPT
                     !.arrays = box.arrays,
                     !.all_waypoints = box.result,
                     !.plans = Append(@, PlanRecord(self.arrays,
                                 self.target_position,
                                 self.square_size, box)),
                     !.flight_state = "WAYPOINT"]
         ELSE IF self.flight_state = "WAYPOINT"
              THEN waypoint_transition(self)
              ELSE self
    ELSE self

\* Mutant of local_position_callback: waypoint_transition is called in every
\* state but TAKEOFF.
local_position_callback_any_state(self) ==
    IF position_reached(self)
    THEN IF self.flight_state = "TAKEOFF"
         THEN LET box == calculate_box(self.arrays, self.target_position,
                                       self.square_size)
                  s1 == [self EXCEPT
                           !.arrays = box.arrays,
                           !.all_waypoints = box.result,
                           !.plans = Append(@, PlanRecord(self.arrays,
                                       self.target_position,
                                       self.square_size, box)),
                           !.flight_state = "WAYPOINT"]
              IN  waypoint_transition(s1)
         ELSE waypoint_transition(self)
    ELSE self

\* Mutant of local_position_callback: the box is planned again on every
\* target reached in WAYPOINT.
local_position_callback_replan(self) ==
    IF position_reached(self)
         /\ self.flight_state \in {"TAKEOFF", "WAYPOINT"}
    THEN LET box == calculate_box(self.arrays, self.target_position,
                                  self.square_size)
             s1 == [self EXCEPT
                      !.arrays = box.arrays,
                      !.all_waypoints = box.result,
                      !.plans = Append(@, PlanRecord(self.arrays,
                                  self.target_position,
                                  self.square_size, box)),
                      !.flight_state = "WAYPOINT"]
         IN  waypoint_transition(s1)
    ELSE self

local_position_callback(self) ==
    IF position_reached(self)
    THEN IF self.flight_state = "TAKEOFF"
         THEN LET box == calculate_box(self.arrays, self.target_position,
                                       self.square_size)
                  s1 == [self EXCEPT
                           !.arrays = box.arrays,
                           !.all_waypoints = box.result,
                           !.plans = Append(@, PlanRecord(self.arrays,
                                       self.target_position,
                                       self.square_size, box)),
                           !.flight_state = "WAYPOINT"]
              IN  waypoint_transition(s1)
         ELSE IF self.flight_state = "WAYPOINT"
              THEN waypoint_transition(self)
              ELSE self
    ELSE self

\* Mutant of landed: either condition is enough.
landed_either(self) ==
    \/ self.global_position[3] - self.global_home[3] < HomeAltTol
    \/ Abs(self.local_position[3]) < GroundTol

\* The landed check of velocity_callback.
landed(self) ==
    /\ self.global_position[3] - self.global_home[3] < HomeAltTol
    /\ Abs(self.local_position[3]) < GroundTol

\* Mutant of velocity_callback: the flight state is not looked at.
velocity_callback_any_state(self) ==
    IF landed(self)
    THEN disarming_transition(self)
    ELSE self

velocity_callback(self) ==
    IF self.flight_state = "LANDING" /\ landed(self)
    THEN disarming_transition(self)
    ELSE self

\* Mutant of state_callback: in_mission is not checked.
state_callback_unguarded(self) ==
    IF self.flight_state = "MANUAL" THEN arming_transition(self)
    ELSE IF self.flight_state = "ARMING" THEN takeoff_transition(self)
    ELSE IF self.flight_state = "DISARMING" THEN manual_transition(self)
    ELSE self

state_callback(self) ==
    IF ~self.in_mission
    THEN self
    ELSE IF self.flight_state = "MANUAL" THEN arming_transition(self)
    ELSE IF self.flight_state = "ARMING" THEN takeoff_transition(self)
    ELSE IF self.flight_state = "DISARMING" THEN manual_transition(self)
    ELSE self

----------------------------------------------------------------------------
\* The state after __init__, with the telemetry fields of a fresh Drone.

Init ==
    /\ flight_state = "MANUAL"
    /\ arrays = << <<0, 0, 0>> >>
    /\ target_position = 1
    /\ all_waypoints = <<>>
    /\ in_mission = TRUE
    /\ square_size = SquareSize
    /\ local_position = <<0, 0, 0>>
    /\ local_velocity = <<0, 0, 0>>
    /\ global_position = <<0, 0, 0>>
    /\ global_home = <<0, 0, 0>>
    /\ commands = <<>>
    /\ plans = <<>>
    /\ visited = <<"MANUAL">>
    /\ last = [handler |-> "none", acted |-> FALSE]
    /\ start_pc = "not_started"
    /\ log_open = FALSE

\* A callback has run on s0 and left s1: the fields are stored, and the
\* callback is noted in visited and last.
Store(handler, s0, s1) ==
    /\ flight_state' = s1.flight_state
    /\ arrays' = s1.arrays
    /\ target_position' = s1.target_position
    /\ all_waypoints' = s1.all_waypoints
    /\ in_mission' = s1.in_mission
    /\ square_size' = s1.square_size
    /\ local_position' = s1.local_position
    /\ local_velocity' = s1.local_velocity
    /\ global_position' = s1.global_position
    /\ global_home' = s1.global_home
    /\ commands' = s1.commands
    /\ plans' = s1.plans
    /\ visited' = IF s1 # s0 THEN Append(visited, s1.flight_state) ELSE visited
    /\ last' = [handler |-> handler, acted |-> s1 # s0]
    /\ UNCHANGED <<start_pc, log_open>>

\* MsgID.LOCAL_POSITION: the dispatcher stores the reading and runs the
\* registered callback.
LocalPositionMsg(p) ==
    LET s0 == [Self EXCEPT !.local_position = p]
    IN  Store("local_position_callback", s0, local_position_callback(s0))

\* MsgID.LOCAL_VELOCITY
LocalVelocityMsg(v) ==
    LET s0 == [Self EXCEPT !.local_velocity = v]
    IN  Store("velocity_callback", s0, velocity_callback(s0))

\* MsgID.STATE
StateMsg ==
    Store("state_callback", Self, state_callback(Self))

\* Global position and global home readings: stored, no callback registered.
GlobalPositionMsg(g) ==
    /\ global_position' = g
    /\ UNCHANGED <<flight_state, arrays, target_position, all_waypoints,
                   in_mission, square_size, local_position, local_velocity,
                   global_home, commands, plans, visited, last,
                   start_pc, log_open>>

GlobalHomeMsg(h) ==
    /\ global_home' = h
    /\ UNCHANGED <<flight_state, arrays, target_position, all_waypoints,
                   in_mission, square_size, local_position, local_velocity,
                   global_position, commands, plans, visited, last,
                   start_pc, log_open>>

Next ==
    \/ \E p \in LocalPositions : LocalPositionMsg(p)
    \/ \E v \in LocalVelocities : LocalVelocityMsg(v)
    \/ StateMsg
    \/ \E g \in GlobalPositions : GlobalPositionMsg(g)
    \/ \E h \in GlobalHomes : GlobalHomeMsg(h)

Spec == Init /\ [][Next]_vars

----------------------------------------------------------------------------
\* start(): the log is opened, connection.start() runs the dispatcher's loop
\* (which delivers the messages) until it returns or raises, and the log is
\* closed by the statement that follows the loop.

\* The fields of the controller and the telemetry are as they were.
ControllerUnchanged ==
    UNCHANGED <<flight_state, arrays, target_position, all_waypoints,
                in_mission, square_size, local_position, local_velocity,
                global_position, global_home, commands, plans, visited, last>>

\* self.start_log("Logs", "NavLog.txt")
StartLog ==
    /\ start_pc = "not_started"
    /\ start_pc' = "log_started"
    /\ log_open' = TRUE
    /\ ControllerUnchanged

\* self.connection.start() is entered
ConnectionStart ==
    /\ start_pc = "log_started"
    /\ start_pc' = "running"
    /\ UNCHANGED log_open
    /\ ControllerUnchanged

\* The loop delivers a message.
Dispatch ==
    /\ start_pc = "running"
    /\ Next

\* self.connection.start() returns: the mission was stopped or the link
\* closed.
ConnectionReturns ==
    /\ start_pc = "running"
    /\ start_pc' = "returned"
    /\ UNCHANGED log_open
    /\ ControllerUnchanged

\* self.connection.start() raises: nothing in start() catches it, and
\* start() is left with the statements after the call not run.
ConnectionRaises ==
    /\ start_pc = "running"
    /\ start_pc' = "raised"
    /\ UNCHANGED log_open
    /\ ControllerUnchanged

\* self.stop_log()
StopLog ==
    /\ start_pc = "returned"
    /\ start_pc' = "done"
    /\ log_open' = FALSE
    /\ ControllerUnchanged

NextStart ==
    \/ StartLog
    \/ ConnectionStart
    \/ Dispatch
    \/ ConnectionReturns
    \/ ConnectionRaises
    \/ StopLog

SpecStart == Init /\ [][NextStart]_vars

----------------------------------------------------------------------------
\* The box specification: calculate_box applied once to every start point
\* and size within the bounds (plain integers).

StartPoints ==
    { <<n, e, a>> : n \in -MaxCoord..MaxCoord, e \in -MaxCoord..MaxCoord,
                    a \in -MaxCoord..MaxCoord }

InitBox ==
    /\ flight_state = "TAKEOFF"
    /\ arrays \in { <<sp>> : sp \in StartPoints }
    /\ target_position = 1
    /\ all_waypoints = <<>>
    /\ in_mission = TRUE
    /\ square_size \in 1..MaxSize
    /\ local_position = <<0, 0, 0>>
    /\ local_velocity = <<0, 0, 0>>
    /\ global_position = <<0, 0, 0>>
    /\ global_home = <<0, 0, 0>>
    /\ commands = <<>>
    /\ plans = <<>>
    /\ visited = <<"TAKEOFF">>
    /\ last = [handler |-> "none", acted |-> FALSE]
    /\ start_pc = "not_started"
    /\ log_open = FALSE

\* self.all_waypoints = self.calculate_box(self.target_position, self.square_size)
PlanBox ==
    /\ plans = <<>>
    /\ LET box == calculate_box(arrays, target_position, square_size)
       IN  /\ arrays' = box.arrays
           /\ all_waypoints' = box.result
           /\ plans' = Append(plans, PlanRecord(arrays, target_position,
                                                square_size, box))
    /\ UNCHANGED <<flight_state, target_position, in_mission, square_size,
                   local_position, local_velocity, global_position,
                   global_home, commands, visited, last, start_pc,
                   log_open>>

NextBox == PlanBox

SpecBox == InitBox /\ [][NextBox]_vars

----------------------------------------------------------------------------
\* Views of the state used by the properties.

\* The value of self.target_position.
TargetValue == arrays[target_position]

\* The values of the entries of self.all_waypoints, front first.
QueueValues == [i \in 1..Len(all_waypoints) |-> arrays[all_waypoints[i]]]

\* The positional commands issued so far, in order.
PositionCommands == SelectSeq(commands, LAMBDA c : c.name = "cmd_position")

\* The fields of the state machine and the connection are as they were.
MachineUnchanged ==
    UNCHANGED <<flight_state, arrays, target_position, all_waypoints,
                in_mission, square_size, commands, plans>>

\* A step that is the delivery of a position, velocity or status event.  The
\* reading delivered is the one the step leaves in the snapshot.
PositionStep ==
    \E p \in LocalPositions \cap {local_position'} : LocalPositionMsg(p)
VelocityStep ==
    \E v \in LocalVelocities \cap {local_velocity'} : LocalVelocityMsg(v)
StatusStep == StateMsg

IsPrefix(s, t) == Len(s) <= Len(t) /\ s = SubSeq(t, 1, Len(s))

----------------------------------------------------------------------------
\* C1.  From MANUAL with in_mission true, the callbacks that act make
\* flight_state visit exactly MANUAL, ARMING, TAKEOFF, WAYPOINT x 4, LANDING,
\* DISARMING, MANUAL (one entry per callback that performed a transition),
\* and in_mission is false at the end: at every moment the states visited
\* are a prefix of that sequence, and in_mission is false exactly when the
\* sequence is complete.
FullMission ==
    << "MANUAL", "ARMING", "TAKEOFF", "WAYPOINT", "WAYPOINT", "WAYPOINT",
       "WAYPOINT", "LANDING", "DISARMING", "MANUAL" >>

C1_FullMissionSequence ==
    /\ IsPrefix(visited, FullMission)
    /\ flight_state = visited[Len(visited)]
    /\ in_mission <=> visited # FullMission

C1_Witness ==
    /\ visited = FullMission
    /\ ~in_mission
    /\ last = [handler |-> "state_callback", acted |-> TRUE]

----------------------------------------------------------------------------
\* C2.  Once in_mission is false, every further event (status, position,
\* velocity) leaves flight_state, target_position and the waypoint queue as
\* they are and issues no command.
C2_NothingAfterMission ==
    [][ ~in_mission =>
          UNCHANGED <<flight_state, arrays, target_position, all_waypoints,
                      commands>> ]_vars

\* A status event delivered after the mission ended, which did nothing.
C2_Witness ==
    /\ ~in_mission
    /\ last = [handler |-> "state_callback", acted |-> FALSE]

----------------------------------------------------------------------------
\* C3.  A velocity event delivered while flight_state is not LANDING issues
\* no command and changes no machine state, whatever the readings; the only
\* transition a velocity event performs is LANDING -> DISARMING.
C3_VelocityOnlyInLanding ==
    [][ VelocityStep =>
          /\ flight_state # "LANDING" => MachineUnchanged
          /\ ~MachineUnchanged =>
                flight_state = "LANDING" /\ flight_state' = "DISARMING" ]_vars

\* A velocity event in TAKEOFF with the landed check satisfied: no disarm.
C3_Witness ==
    /\ flight_state = "TAKEOFF"
    /\ landed(Self)
    /\ last = [handler |-> "velocity_callback", acted |-> FALSE]

----------------------------------------------------------------------------
\* C4.  The waypoint queue is consumed first in, first out: the positional
\* commands issued so far (heading 0) are the first k points of the
\* planner's output in its order, target_position is the k-th, and the queue
\* holds exactly the remaining points in order.
C4_FifoOrder ==
    /\ Len(plans) <= 1
    /\ plans = <<>> => PositionCommands = <<>> /\ all_waypoints = <<>>
    /\ plans # <<>> =>
         LET pts == plans[1].points
             k == Len(PositionCommands)
         IN  /\ k <= Len(pts)
             /\ \A i \in 1..k :
                   PositionCommands[i].args
                     = <<pts[i][1], pts[i][2], pts[i][3], 0>>
             /\ k >= 1 => TargetValue = pts[k]
             /\ QueueValues = SubSeq(pts, k + 1, Len(pts))

C4_Witness ==
    /\ Len(PositionCommands) = 4
    /\ all_waypoints = <<>>
    /\ flight_state = "WAYPOINT"

----------------------------------------------------------------------------
\* C5.  calculate_box(start, size), size positive, returns exactly 4 points:
\* p1 = start + (size,0,0), p2 = p1 + (0,size,0), p3 = p2 - (size,0,0),
\* p4 = start; consecutive points differ by exactly size along exactly one
\* axis, and every point has start's altitude.  (Specification SpecBox.)
DiffersOnOneAxis(a, b, size) ==
    /\ Cardinality({i \in 1..3 : a[i] # b[i]}) = 1
    /\ \A i \in 1..3 : a[i] # b[i] => Abs(a[i] - b[i]) = size

C5_BoxShape ==
    \A n \in 1..Len(plans) :
        LET st == plans[n].start
            sz == plans[n].size
            p == plans[n].points
        IN  /\ Len(p) = 4
            /\ p[1] = <<st[1] + sz, st[2], st[3]>>
            /\ p[2] = <<p[1][1], p[1][2] + sz, p[1][3]>>
            /\ p[3] = <<p[2][1] - sz, p[2][2], p[2][3]>>
            /\ p[4] = st
            /\ \A i \in 1..3 : DiffersOnOneAxis(p[i], p[i + 1], sz)
            /\ \A i \in 1..4 : p[i][3] = st[3]

C5_Witness ==
    /\ plans # <<>>
    /\ plans[1].start = <<1, -1, 1>>
    /\ plans[1].size = 2
    /\ QueueValues = << <<3, -1, 1>>, <<3, 1, 1>>, <<1, 1, 1>>, <<1, -1, 1>> >>

----------------------------------------------------------------------------
\* The position-reached predicate as the specification states it, for the
\* reading p against the current target: every axis within 0.25, bound
\* included, the altitude of the reading being minus its third component.
ReachedAt(p) ==
    /\ Abs(p[1] - TargetValue[1]) <= 250
    /\ Abs(p[2] - TargetValue[2]) <= 250
    /\ Abs((-p[3]) - TargetValue[3]) <= 250

\* The horizontal speed of the velocity snapshot is below 1.0.
SlowEnough ==
    local_velocity[1] * local_velocity[1]
      + local_velocity[2] * local_velocity[2] < 1000 * 1000

\* C6.  The position handler performs a transition only when the
\* position-reached predicate holds, and the predicate is componentwise
\* with an inclusive bound of 0.25 on the sign-inverted altitude: whenever
\* it holds in TAKEOFF the transition to WAYPOINT is performed, and
\* whenever it holds in WAYPOINT with a non-empty queue the front is popped.
C6_PositionReached ==
    [][ \A p \in LocalPositions \cap {local_position'} :
          LocalPositionMsg(p) =>
            /\ ~MachineUnchanged => ReachedAt(p)
            /\ ReachedAt(p) /\ flight_state = "TAKEOFF"
                 => flight_state' = "WAYPOINT"
            /\ ReachedAt(p) /\ flight_state = "WAYPOINT"
                            /\ all_waypoints # <<>>
                 => all_waypoints' = Tail(all_waypoints) ]_vars

\* The takeoff target was reached by a reading 0.2 off on all three axes.
C6_Witness ==
    /\ last = [handler |-> "local_position_callback", acted |-> TRUE]
    /\ local_position = <<200, 200, -3200>>
    /\ visited = <<"MANUAL", "ARMING", "TAKEOFF", "WAYPOINT">>

----------------------------------------------------------------------------
\* C7, as claimed.  LANDING -> DISARMING happens on a velocity event only if
\* the altitude gap from home is below 0.1 and the vertical speed magnitude
\* is below 0.01; when either fails nothing changes.
C7_Original ==
    [][ VelocityStep /\ flight_state = "LANDING" =>
          LET ok == /\ global_position[3] - global_home[3] < 100
                    /\ Abs(local_velocity'[3]) < 10
          IN  /\ flight_state' = "DISARMING" => ok
              /\ ~ok => MachineUnchanged ]_vars

\* C7, as amended.  LANDING -> DISARMING (and the disarm command) happens on
\* a velocity event exactly when global_position[2] - global_home[2] is
\* below 0.1 and the magnitude of the vertical component of the local
\* position, local_position[2], is below 0.01; the vertical speed is not
\* read.  When either condition fails nothing changes.
C7_LandedCheck ==
    [][ VelocityStep /\ flight_state = "LANDING" =>
          LET ok == /\ global_position[3] - global_home[3] < 100
                    /\ Abs(local_position[3]) < 10
          IN  IF ok
              THEN /\ flight_state' = "DISARMING"
                   /\ commands' = Append(commands, Cmd("disarm", <<>>))
              ELSE MachineUnchanged ]_vars

\* Disarmed by a velocity event whose vertical speed is 0.5.
C7_Witness ==
    /\ flight_state = "DISARMING"
    /\ last = [handler |-> "velocity_callback", acted |-> TRUE]
    /\ Abs(local_velocity[3]) >= 10

----------------------------------------------------------------------------
\* C8, as claimed.  The position event that takes TAKEOFF -> WAYPOINT only
\* runs the planner and stores its 4 points: target_position is unchanged
\* and no command is issued.
C8_Original ==
    [][ PositionStep /\ flight_state = "TAKEOFF" /\ flight_state' = "WAYPOINT"
          => /\ Len(all_waypoints') = 4
             /\ TargetValue' = TargetValue
             /\ commands' = commands ]_vars

\* C8, as amended.  The position event that takes TAKEOFF -> WAYPOINT runs
\* the planner on target_position and performs the first pop in the same
\* invocation: target_position becomes p1, cmd_position(p1, heading 0) is
\* issued and the queue is left with p2, p3, p4.  Every other step performs
\* at most one row: a change of flight_state leaves the queue and
\* target_position alone, and a change of the queue is one pop of its front.
C8_PlanAndFirstPop ==
    [][ IF flight_state = "TAKEOFF" /\ flight_state' = "WAYPOINT"
        THEN /\ PositionStep
             /\ Len(plans') = Len(plans) + 1
             /\ LET plan == plans'[Len(plans')]
                    pts == plan.points
                IN  /\ plan.start = TargetValue
                    /\ Len(pts) = 4
                    /\ TargetValue' = pts[1]
                    /\ QueueValues' = Tail(pts)
                    /\ commands' = Append(commands,
                          Cmd("cmd_position",
                              <<pts[1][1], pts[1][2], pts[1][3], 0>>))
        ELSE /\ plans' = plans
             /\ flight_state' # flight_state =>
                   /\ all_waypoints' = all_waypoints
                   /\ target_position' = target_position
                   /\ PositionCommands' = PositionCommands
             /\ all_waypoints' # all_waypoints =>
                   /\ PositionStep
                   /\ flight_state' = flight_state
                   /\ target_position' = Head(all_waypoints)
                   /\ all_waypoints' = Tail(all_waypoints)
                   /\ Len(commands') = Len(commands) + 1 ]_vars

\* Right after the event that left TAKEOFF: the first point is already
\* popped and commanded.
C8_Witness ==
    /\ visited = <<"MANUAL", "ARMING", "TAKEOFF", "WAYPOINT">>
    /\ last = [handler |-> "local_position_callback", acted |-> TRUE]
    /\ Len(all_waypoints) = 3
    /\ Len(PositionCommands) = 1
    /\ TargetValue = plans[1].points[1]

----------------------------------------------------------------------------
\* C9.  The land command and WAYPOINT -> LANDING occur only on a position
\* event in WAYPOINT with the position reached, the queue empty and the
\* horizontal speed below 1.0; with the queue empty and the speed not below
\* 1.0 the event does nothing, and a later qualifying event lands.
C9_LandGuard ==
    [][ /\ ( \/ flight_state # "LANDING" /\ flight_state' = "LANDING"
             \/ /\ Len(commands') > Len(commands)
                /\ \E i \in (Len(commands) + 1)..Len(commands') :
                      commands'[i].name = "land" )
          => /\ flight_state = "WAYPOINT"
             /\ all_waypoints = <<>>
             /\ \E p \in LocalPositions \cap {local_position'} :
                   LocalPositionMsg(p) /\ ReachedAt(p) /\ SlowEnough
        /\ \A p \in LocalPositions \cap {local_position'} :
             ( /\ LocalPositionMsg(p)
               /\ flight_state = "WAYPOINT"
               /\ all_waypoints = <<>>
               /\ ReachedAt(p) )
             => IF SlowEnough
                THEN /\ flight_state' = "LANDING"
                     /\ commands' = Append(commands, Cmd("land", <<>>))
                ELSE MachineUnchanged ]_vars

\* A position event on the last target with the queue empty and the
\* horizontal speed exactly 1.0: nothing happened.
C9_Witness ==
    /\ flight_state = "WAYPOINT"
    /\ all_waypoints = <<>>
    /\ Len(PositionCommands) = 4
    /\ position_reached(Self)
    /\ local_velocity = <<600, 800, 0>>
    /\ last = [handler |-> "local_position_callback", acted |-> FALSE]

----------------------------------------------------------------------------
\* C10.  in_mission starts true, is cleared only by the DISARMING -> MANUAL
\* transition of a status event (which does clear it), and once false never
\* becomes true again.
C10_MissionFlagPermanent ==
    /\ in_mission = TRUE
    /\ [][ /\ ~in_mission => ~in_mission'
           /\ in_mission /\ ~in_mission' =>
                 /\ StatusStep
                 /\ flight_state = "DISARMING"
                 /\ flight_state' = "MANUAL"
           /\ flight_state = "DISARMING" /\ flight_state' = "MANUAL"
                 => ~in_mission' ]_vars

\* The flag has just been cleared by the status event in DISARMING.
C10_Witness ==
    /\ ~in_mission
    /\ flight_state = "MANUAL"
    /\ commands[Len(commands)].name = "stop"
    /\ last = [handler |-> "state_callback", acted |-> TRUE]
    /\ local_velocity # <<0, 0, 0>>

----------------------------------------------------------------------------
\* C11.  start() closes the log on every exit path: whether the
\* dispatcher's loop returns normally or ends with an error, the log opened
\* by start() is closed when start() has exited.  (Specification SpecStart.)
C11_LogClosedOnExit ==
    start_pc \in {"done", "raised"} => ~log_open

----------------------------------------------------------------------------
\* C12.  No pop is ever made from an empty waypoint queue: a step that pops
\* (target_position is replaced, or a positional command is issued) takes
\* the front of a non-empty queue (the queue just planned, when the step
\* leaves TAKEOFF), a position event in WAYPOINT with the queue empty pops
\* nothing and lands when the position is reached at low speed, and LANDING
\* is entered only with the queue empty.
C12_NoPopFromEmpty ==
    [][ /\ ( \/ target_position' # target_position
             \/ Len(PositionCommands') > Len(PositionCommands) )
          => LET q == IF flight_state = "TAKEOFF"
                      THEN plans'[Len(plans')].points
                      ELSE QueueValues
             IN  /\ q # <<>>
                 /\ TargetValue' = Head(q)
                 /\ QueueValues' = Tail(q)
        /\ \A p \in LocalPositions \cap {local_position'} :
             (LocalPositionMsg(p) /\ flight_state = "WAYPOINT"
                                  /\ all_waypoints = <<>>)
             => /\ target_position' = target_position
                /\ all_waypoints' = <<>>
                /\ PositionCommands' = PositionCommands
                /\ ReachedAt(p) /\ SlowEnough => flight_state' = "LANDING"
        /\ flight_state # "LANDING" /\ flight_state' = "LANDING"
             => all_waypoints = <<>> /\ all_waypoints' = <<>> ]_vars

\* The position event that found the queue empty has landed.
C12_Witness ==
    /\ flight_state = "LANDING"
    /\ all_waypoints = <<>>
    /\ Len(PositionCommands) = 4
    /\ commands[Len(commands)].name = "land"
    /\ last = [handler |-> "local_position_callback", acted |-> TRUE]

----------------------------------------------------------------------------
\* C13.  Unmatched (state, event) combinations do nothing: a status event in
\* TAKEOFF, WAYPOINT or LANDING, and a position event in MANUAL, ARMING,
\* LANDING or DISARMING (the position reached or not), leave flight_state,
\* target_position, the queue and in_mission unchanged and issue no command.
C13_UnmatchedNoOp ==
    [][ /\ StatusStep /\ flight_state \in {"TAKEOFF", "WAYPOINT", "LANDING"}
          => MachineUnchanged
        /\ PositionStep
             /\ flight_state \in {"MANUAL", "ARMING", "LANDING", "DISARMING"}
          => MachineUnchanged ]_vars

\* A position event in LANDING with the target reached, which did nothing.
C13_Witness ==
    /\ flight_state = "LANDING"
    /\ position_reached(Self)
    /\ SlowEnough
    /\ last = [handler |-> "local_position_callback", acted |-> FALSE]

----------------------------------------------------------------------------
\* C14.  The planner is invoked at most once, only by a position event in
\* TAKEOFF, on the value target_position has at that moment (and
\* square_size), and every entry the queue ever holds is one of the points
\* of that invocation.
C14_PlannedOnce ==
    /\ [](/\ Len(plans) <= 1
          /\ \A i \in 1..Len(all_waypoints) :
                /\ plans # <<>>
                /\ \E j \in 1..Len(plans[1].points) :
                      QueueValues[i] = plans[1].points[j])
    /\ [][ plans' # plans =>
             /\ PositionStep
             /\ flight_state = "TAKEOFF"
             /\ plans = <<>>
             /\ Len(plans') = 1
             /\ plans'[1].start = TargetValue
             /\ plans'[1].size = square_size
             /\ Len(plans'[1].points) = 4 ]_vars

\* The mission is over, the takeoff target is reached once more, and the
\* planner has still run once.
C14_Witness ==
    /\ ~in_mission
    /\ Len(plans) = 1
    /\ position_reached(Self)
    /\ last = [handler |-> "local_position_callback", acted |-> FALSE]

----------------------------------------------------------------------------
\* The names of the commands issued so far, in order.
CommandNames == [i \in 1..Len(commands) |-> commands[i].name]

\* C15.  MANUAL -> ARMING, on a status event with in_mission true, issues in
\* this order take_control, arm and set_home_position with the three
\* components of the global position current at that event, and ends in
\* ARMING.  The next status event sets the altitude of target_position to
\* 3.0 (north and east unchanged), issues takeoff(3.0) and ends in TAKEOFF.
C15_ArmThenTakeoff ==
    [][ StatusStep /\ in_mission =>
          /\ flight_state = "MANUAL" =>
                /\ commands' = commands \o
                     << Cmd("take_control", <<>>), Cmd("arm", <<>>),
                        Cmd("set_home_position",
                            <<global_position[1], global_position[2],
                              global_position[3]>>) >>
                /\ flight_state' = "ARMING"
                /\ TargetValue' = TargetValue
          /\ flight_state = "ARMING" =>
                /\ TargetValue' = <<TargetValue[1], TargetValue[2], 3000>>
                /\ target_position' = target_position
                /\ commands' = Append(commands, Cmd("takeoff", <<3000>>))
                /\ flight_state' = "TAKEOFF" ]_vars

\* Armed at global position (-122, 37, 0.099), then taken off.
C15_Witness ==
    /\ flight_state = "TAKEOFF"
    /\ commands = << Cmd("take_control", <<>>), Cmd("arm", <<>>),
                     Cmd("set_home_position", <<-122, 37, 99>>),
                     Cmd("takeoff", <<3000>>) >>
    /\ TargetValue = <<0, 0, 3000>>
    /\ last = [handler |-> "state_callback", acted |-> TRUE]

----------------------------------------------------------------------------
\* C16.  Under every interleaving of the events, flight_state changes only
\* along MANUAL -> ARMING -> TAKEOFF -> WAYPOINT -> LANDING -> DISARMING ->
\* MANUAL, one edge at a time, and the cycle is traversed at most once:
\* MANUAL is left only before any callback has acted.
CycleEdges ==
    { <<"MANUAL", "ARMING">>, <<"ARMING", "TAKEOFF">>,
      <<"TAKEOFF", "WAYPOINT">>, <<"WAYPOINT", "LANDING">>,
      <<"LANDING", "DISARMING">>, <<"DISARMING", "MANUAL">> }

C16_OneCycle ==
    [][ flight_state' # flight_state =>
          /\ <<flight_state, flight_state'>> \in CycleEdges
          /\ in_mission
          /\ flight_state = "MANUAL" =>
                visited = <<"MANUAL">> /\ commands = <<>> ]_vars

\* The cycle is closed and events keep arriving.
C16_Witness ==
    /\ flight_state = "MANUAL"
    /\ Len(visited) = 10
    /\ last = [handler |-> "velocity_callback", acted |-> FALSE]

----------------------------------------------------------------------------
\* C17.  Over any event sequence the commands issued are, in this order,
\* take_control, arm, set_home_position, takeoff, cmd_position (up to 4),
\* land, disarm, release_control, stop, each of the others at most once:
\* the names issued so far are a prefix of that sequence.
AllCommands ==
    << "take_control", "arm", "set_home_position", "takeoff",
       "cmd_position", "cmd_position", "cmd_position", "cmd_position",
       "land", "disarm", "release_control", "stop" >>

C17_CommandOrder ==
    IsPrefix(CommandNames, AllCommands)

C17_Witness ==
    /\ CommandNames = AllCommands
    /\ ~in_mission

----------------------------------------------------------------------------
\* C18.  In LANDING and DISARMING, and in MANUAL once in_mission is false,
\* the queue is empty and target_position equals the point the planner was
\* started from; the land command is issued only on a reading within 0.25
\* per axis of that point.
C18_LandAtStart ==
    /\ []( ( \/ flight_state \in {"LANDING", "DISARMING"}
             \/ flight_state = "MANUAL" /\ ~in_mission )
           => /\ all_waypoints = <<>>
              /\ Len(plans) = 1
              /\ TargetValue = plans[1].start )
    /\ [][ CommandNames' # CommandNames
             /\ CommandNames'[Len(CommandNames')] = "land"
           => /\ Len(plans) = 1
              /\ \A i \in 1..2 :
                    Abs(local_position'[i] - plans[1].start[i]) <= 250
              /\ Abs((-local_position'[3]) - plans[1].start[3]) <= 250 ]_vars

\* Landed from the far edge of the tolerance around the start point.
C18_Witness ==
    /\ flight_state = "LANDING"
    /\ TargetValue = <<0, 0, 3000>>
    /\ local_position = <<250, -250, -2750>>
    /\ last = [handler |-> "local_position_callback", acted |-> TRUE]

----------------------------------------------------------------------------
\* C19.  calculate_box leaves its start argument (and every array that
\* existed) as it was; the 4th waypoint queued is the very array that
\* target_position referred to before planning; no array is written while
\* it is in the queue (the only in-place write, the altitude assignment of
\* takeoff_transition, happens with the queue empty); so every value popped
\* is the value the planner computed for it.
InQueue(ref) == \E i \in 1..Len(all_waypoints) : all_waypoints[i] = ref

C19_NoWriteWhileQueued ==
    /\ [][ /\ plans' # plans =>
                /\ \A r \in 1..Len(arrays) : arrays'[r] = arrays[r]
                /\ plans'[Len(plans')].points[4] = TargetValue
                /\ all_waypoints'[Len(all_waypoints')] = target_position
           /\ \A r \in 1..Len(arrays) :
                arrays'[r] # arrays[r] =>
                   /\ ~InQueue(r)
                   /\ all_waypoints = <<>>
                   /\ StatusStep /\ flight_state = "ARMING"
                   /\ r = target_position ]_vars
    /\ [](plans # <<>> =>
            /\ \A i \in 1..Len(PositionCommands) :
                  PositionCommands[i].args
                    = << plans[1].points[i][1], plans[1].points[i][2],
                         plans[1].points[i][3], 0 >>
            /\ \A i \in 1..Len(all_waypoints) :
                  QueueValues[i]
                    = plans[1].points[4 - Len(all_waypoints) + i])

\* The array target_position referred to before planning is still queued,
\* as the last waypoint, while the target is another array.
C19_Witness ==
    /\ flight_state = "WAYPOINT"
    /\ Len(all_waypoints) = 2
    /\ all_waypoints[2] = 1
    /\ target_position # 1
    /\ arrays[1] = <<0, 0, 3000>>

====
